---- MODULE Spec2Model ----
(***************************************************************************)
(* A model of the fminer scraping pipeline:                                *)
(*   - the link discovery crawler (src/fminer.py): resume from the output  *)
(*     CSV, the lock file protocol, the per-URL streaming of new hrefs;    *)
(*   - the parallel detail extractor (src/game_miner_parallel.py): resume, *)
(*     the worker pool, the periodic full rewrite of the output CSV.       *)
(*                                                                         *)
(* Strings that the code searches or rewrites (hrefs, links) are sequences *)
(* of tokens: "/" is the path separator, "Spielbericht" the path segment   *)
(* that normalisation strips, "oefb.at" the host, "verein"/"Verein" the    *)
(* club marker, " " white space.                                           *)
(***************************************************************************)
EXTENDS Integers, Sequences, FiniteSets, TLC

\* ------------------------------------------------------------------ bounds
NumUrls == 2        \* listing URLs given to one crawler run
MaxView == 2        \* anchors one listing page shows in one collection pass
MaxPrior == 1       \* data rows of the CSV a run resumes from
MaxClicks == 2      \* max_clicks handed to click_more_until_stable
MaxTicks == 2       \* clock advances observed during one behaviour
MaxLoops == 2       \* passes through the loop of click_more_until_stable
MaxLinks == 3       \* rows of the extractor's input CSV
MaxRuns == 2        \* extractor runs on the same input and output file
MaxFlushEvery == 2  \* largest flush_every handed to run_parallel
MaxEntries == 2     \* entries of the page's preload structure
MaxPolls == 2       \* polls of one WebDriverWait before its timeout
MaxLoads == 2       \* changes of the page during get_coordinates
MaxSegments == 3    \* comma segments of an address
MaxRows == 2        \* rows of the CSV that a batch tool reads
MaxDatum == 2       \* different dates in that CSV
MaxOutcomes == 4    \* calls of driver.get whose outcome is drawn

\* --------------------------------------------------------------- constants
wait_secs == 30     \* file_lock(lock_path, wait_secs=30)
StaleSecs == 3600   \* a lock older than this is removed by a waiter
Attempts == 3       \* safe_get(driver, url, attempts=3)
backoff10 == 15     \* safe_get: time.sleep(1.5 * i), in tenths of a second

Inst == {1, 2}      \* crawler processes that may share one output CSV

\* ------------------------------------------------------------------ strings
Infix == <<"/", "Spielbericht", "/">>

\* str.replace("/Spielbericht/", "/"): leftmost matches, not overlapping,
\* the replacement is not scanned again.
RECURSIVE ReplaceInfix(_)
ReplaceInfix(s) ==
    IF Len(s) < Len(Infix) THEN s
    ELSE IF SubSeq(s, 1, Len(Infix)) = Infix
         THEN <<"/">> \o ReplaceInfix(SubSeq(s, Len(Infix) + 1, Len(s)))
         ELSE <<Head(s)>> \o ReplaceInfix(Tail(s))

\* "x in s" for a one-token needle
Contains(s, tok) == \E k \in 1..Len(s) : s[k] = tok

\* s.lower() on the tokens whose case matters here
Lower(s) == [k \in 1..Len(s) |-> IF s[k] = "Verein" THEN "verein" ELSE s[k]]

\* str.strip()
RECURSIVE LStrip(_)
LStrip(s) == IF s # <<>> /\ Head(s) = " " THEN LStrip(Tail(s)) ELSE s
RECURSIVE RStrip(_)
RStrip(s) == IF s # <<>> /\ s[Len(s)] = " " THEN RStrip(SubSeq(s, 1, Len(s) - 1)) ELSE s
Strip(s) == RStrip(LStrip(s))

RECURSIVE SeqsUpTo(_, _)
SeqsUpTo(S, n) ==
    IF n = 0 THEN {<<>>}
    ELSE LET shorter == SeqsUpTo(S, n - 1)
         IN shorter \cup {Append(q, x) : q \in shorter, x \in S}

Range(q) == {q[k] : k \in 1..Len(q)}
NoRepeat(q) == \A j, k \in 1..Len(q) : j # k => q[j] # q[k]

\* --------------------------------------------------- what a page can show
\* The href attribute values of the anchors inside div.schedule_table, as
\* the browser reports them (resolved URLs).
RawHrefs ==
    { <<"oefb.at", "/", "a">>,
      <<"oefb.at", "/", "Spielbericht", "/", "a">>,
      <<"oefb.at", "/", "Spielbericht", "/", "Spielbericht", "/", "b">>,
      <<"oefb.at", "/", "Verein", "/", "a">>,
      <<"other.at", "/", "a">>,
      <<>> }

PageViews == SeqsUpTo(RawHrefs, MaxView)

\* collect_links_from_page, for the anchors `view` in document order: the
\* hrefs (normalised, filtered, without repetition) in the order found.
RECURSIVE CollectFrom(_, _)
CollectFrom(view, seen_local) ==
    IF view = <<>> THEN <<>>
    ELSE LET href == ReplaceInfix(Head(view))
         IN IF href = <<>> \/ href \in seen_local
                \/ Contains(Lower(href), "verein")
                \/ ~Contains(href, "oefb.at")
            THEN CollectFrom(Tail(view), seen_local)
            ELSE <<href>> \o CollectFrom(Tail(view), seen_local \cup {href})

collect_links_from_page(view) == CollectFrom(view, {})

\* what a collection pass can return, over all the pages
CollectResults == {collect_links_from_page(v) : v \in PageViews}

\* every href some collection pass can return
Collectable == UNION {Range(collect_links_from_page(v)) : v \in PageViews}

\* ------------------------------------------------------------ the CSV file
Header == [kind |-> "header", href |-> <<"href">>, source_url |-> 0]
Row(h, u) == [kind |-> "row", href |-> h, source_url |-> u]

DataRows(lines) == SelectSeq(lines, LAMBDA r : r.kind = "row")
HrefsOf(lines) == {r.href : r \in Range(DataRows(lines))}

\* csv.DictReader: the first line names the columns, the others are rows;
\* row.get("href") is None when the first line has no href column.
load_existing_hrefs(file) ==
    IF ~file.exists \/ file.lines = <<>> THEN {}
    ELSE IF file.lines[1].kind # "header" THEN {}
    ELSE {Strip(r.href) : r \in Range(Tail(file.lines))} \ {<<>>}

\* Output files an earlier crawler run can have left: the header and rows
\* with pairwise different hrefs.
PriorFiles ==
    { [exists |-> TRUE, lines |-> <<Header>> \o [k \in 1..Len(q) |-> Row(q[k], 1)]] :
        q \in {p \in SeqsUpTo(Collectable, MaxPrior) : NoRepeat(p)} }

NoFile == [exists |-> FALSE, lines |-> <<>>]
EmptyFile == [exists |-> TRUE, lines |-> <<>>]
NoLock == [exists |-> FALSE, mtime |-> 0, owner |-> 0]


\* ------------------------------------------------------------------- state
VARIABLES
    csv,     \* the crawler's output CSV: [exists, lines]
    lock,    \* the lock file beside it: [exists, mtime, owner]
    now,     \* time.time(), in seconds
    ticks,   \* clock advances so far
    proc     \* the crawler processes: position and local variables of each

cvars == <<csv, lock, now, ticks, proc>>

\* A crawler process before its start.
Idle ==
    [ pc |-> "idle",
      nurls |-> 0,             \* __main__: len(args.urls)
      fresh |-> FALSE,         \* __main__: args.fresh
      existing_hrefs |-> {},   \* __main__: existing_hrefs
      global_seen |-> {},      \* scrape_multiple_urls_streaming: global_seen
      start |-> 0,             \* file_lock: start
      st_mtime |-> 0,          \* file_lock: the mtime that stat() returned
      url |-> 0,               \* index of the listing URL being streamed
      attempt |-> 0,           \* safe_get: i
      pass |-> 0,              \* 1: before click_more_until_stable, 2: after
      items |-> <<>>,          \* hrefs of the collection pass still to handle
      href |-> <<>>,           \* the href whose row is being appended
      buf |-> <<>>,            \* rows written to fh and not yet flushed
      clicks |-> 0,            \* click_more_until_stable: clicks
      loops |-> 0 ]            \* passes through its while loop so far

Pc(i) == proc[i].pc
Goto(i, p) == proc' = [proc EXCEPT ![i].pc = p]

\* the body of "with file_lock(lock_path):", lines 280-286
RegionPcs == {"open", "nav", "wait_table", "collect", "rows", "append", "click", "close"}
\* the while loop of file_lock, lines 174-185
WaitPcs == {"lock_loop", "lock_timecheck", "lock_stat", "lock_unlink",
            "lock_sleep_half", "lock_sleep_one"}
InRegion(i) == Pc(i) \in RegionPcs
Running(i) == Pc(i) \notin {"idle", "done", "failed", "crashed"}

\* ------------------------------------------------------------ __main__
\* lines 313-320: --fresh removes the output file, otherwise the hrefs of
\* the existing file are loaded.
Main(i) ==
    /\ Pc(i) = "main"
    /\ \E fresh \in BOOLEAN :
         IF fresh
         THEN /\ csv' = NoFile
              /\ proc' = [proc EXCEPT ![i].pc = "ensure", ![i].fresh = TRUE,
                                      ![i].existing_hrefs = {}]
         ELSE /\ csv' = csv
              /\ proc' = [proc EXCEPT ![i].pc = "ensure", ![i].fresh = FALSE,
                                      ![i].existing_hrefs = load_existing_hrefs(csv)]
    /\ UNCHANGED <<lock, now, ticks>>

\* (the header written, and the file truncated, on every start)
NeedsHeaderAlways(file) == TRUE

\* ensure_csv_with_header, then global_seen = set(already_seen or set())
NeedsHeader(file) == ~file.exists \/ file.lines = <<>>

EnsureCsv(i) ==
    /\ Pc(i) = "ensure"
    /\ csv' = IF NeedsHeader(csv) THEN [exists |-> TRUE, lines |-> <<Header>>] ELSE csv
    /\ proc' = [proc EXCEPT ![i].pc = "make_driver",
                            ![i].global_seen = proc[i].existing_hrefs]
    /\ UNCHANGED <<lock, now, ticks>>

\* make_driver: the browser starts, or webdriver.Chrome raises and the
\* process ends before the lock is touched.  On success file_lock is entered:
\* start = time.time().
MakeDriver(i) ==
    /\ Pc(i) = "make_driver"
    /\ \/ proc' = [proc EXCEPT ![i].pc = "lock_loop", ![i].start = now]
       \/ Goto(i, "failed")
    /\ UNCHANGED <<csv, lock, now, ticks>>

\* ------------------------------------------------------------ file_lock
\* line 174: while lock_path.exists()
LockLoop(i) ==
    /\ Pc(i) = "lock_loop"
    /\ Goto(i, IF lock.exists THEN "lock_timecheck" ELSE "lock_write")
    /\ UNCHANGED <<csv, lock, now, ticks>>

\* line 175: if time.time() - start > wait_secs
TimedOut(i) == now - proc[i].start > wait_secs

LockTimeCheck(i) ==
    /\ Pc(i) = "lock_timecheck"
    /\ Goto(i, IF TimedOut(i) THEN "lock_stat" ELSE "lock_sleep_half")
    /\ UNCHANGED <<csv, lock, now, ticks>>

\* (a takeover as soon as the wait has timed out, whatever the lock's age)
IsStaleAlways(mtime) == TRUE

\* line 177: time.time() - lock_path.stat().st_mtime > 3600
IsStale(mtime) == now - mtime > StaleSecs

\* stat() raises when the file is gone meanwhile: except Exception: pass
LockStat(i) ==
    /\ Pc(i) = "lock_stat"
    /\ IF ~lock.exists THEN Goto(i, "lock_sleep_one")
       ELSE proc' = [proc EXCEPT
                ![i].st_mtime = lock.mtime,
                ![i].pc = IF IsStale(lock.mtime) THEN "lock_unlink" ELSE "lock_sleep_one"]
    /\ UNCHANGED <<csv, lock, now, ticks>>

\* lines 178-180: lock_path.unlink(missing_ok=True); break
LockUnlink(i) ==
    /\ Pc(i) = "lock_unlink"
    /\ lock' = NoLock
    /\ Goto(i, "lock_write")
    /\ UNCHANGED <<csv, now, ticks>>

\* lines 183 and 185: time.sleep(1) / time.sleep(0.5), back to the loop test
LockSleep(i) ==
    /\ Pc(i) \in {"lock_sleep_half", "lock_sleep_one"}
    /\ Goto(i, "lock_loop")
    /\ UNCHANGED <<csv, lock, now, ticks>>

\* lines 186-192: write_text(pid) creates or overwrites the lock file; when it
\* raises, the exception is swallowed; either way the body is entered.
LockWrite(i) ==
    /\ Pc(i) = "lock_write"
    /\ \/ lock' = [exists |-> TRUE, mtime |-> now, owner |-> i]
       \/ lock' = lock
    /\ Goto(i, "open")
    /\ UNCHANGED <<csv, now, ticks>>

\* lines 193-196: finally: lock_path.unlink(missing_ok=True)
LockRelease(i) ==
    /\ Pc(i) = "release"
    /\ lock' = NoLock
    /\ Goto(i, "quit")
    /\ UNCHANGED <<csv, now, ticks>>

\* lines 287-290: driver.quit()
DriverQuit(i) ==
    /\ Pc(i) = "quit"
    /\ Goto(i, "done")
    /\ UNCHANGED <<csv, lock, now, ticks>>

\* Time passes.  The clock is read in file_lock only (lines 175 and 177), so
\* its advances are observed while some process is in the wait loop.
Tick ==
    /\ ticks < MaxTicks
    /\ \E i \in Inst : Pc(i) \in WaitPcs
    /\ \E d \in {wait_secs + 1, StaleSecs + 1} : now' = now + d
    /\ ticks' = ticks + 1
    /\ UNCHANGED <<csv, lock, proc>>


\* ------------------------------------------- scrape_multiple_urls_streaming
\* what fh.flush() makes of the file: the buffered rows go to its end
Flushed(file, rows) ==
    IF file.exists THEN [file EXCEPT !.lines = @ \o rows] ELSE file

\* line 280: open(csv_path, "a") creates a missing file; line 282 takes the
\* first URL.
OpenCsv(i) ==
    /\ Pc(i) = "open"
    /\ csv' = IF csv.exists THEN csv ELSE EmptyFile
    /\ proc' = [proc EXCEPT ![i].pc = IF proc[i].nurls >= 1 THEN "nav" ELSE "close",
                            ![i].url = 1, ![i].attempt = 1, ![i].buf = <<>>]
    /\ UNCHANGED <<lock, now, ticks>>

\* (the loop over the URLs left at the first URL that has ended)
NextUrlAbort(p) ==
    [p EXCEPT !.pc = "close",
              !.url = p.url + 1, !.attempt = 1, !.pass = 0, !.items = <<>>,
              !.href = <<>>, !.clicks = 0, !.loops = 0]

\* lines 282-286: the next URL of the loop, also after an exception that
\* stream_links_from_url raised (except Exception: print).
NextUrl(p) ==
    [p EXCEPT !.pc = IF p.url + 1 > p.nurls THEN "close" ELSE "nav",
              !.url = p.url + 1, !.attempt = 1, !.pass = 0, !.items = <<>>,
              !.href = <<>>, !.clicks = 0, !.loops = 0]

\* safe_get: driver.get succeeds, or fails and is tried again after
\* time.sleep(1.5 * i), or fails for the last time and the error is re-raised.
SafeGet(i) ==
    /\ Pc(i) = "nav"
    /\ \/ Goto(i, "wait_table")
       \/ /\ proc[i].attempt < Attempts
          /\ proc' = [proc EXCEPT ![i].attempt = @ + 1]
       \/ /\ proc[i].attempt = Attempts
          /\ proc' = [proc EXCEPT ![i] = NextUrl(@)]
    /\ UNCHANGED <<csv, lock, now, ticks>>

\* wait_for_schedule_table: the container appears, or TimeoutException
WaitTable(i) ==
    /\ Pc(i) = "wait_table"
    /\ \/ proc' = [proc EXCEPT ![i].pc = "collect", ![i].pass = 1]
       \/ proc' = [proc EXCEPT ![i] = NextUrl(@)]
    /\ UNCHANGED <<csv, lock, now, ticks>>

\* lines 246 and 255: items = collect_links_from_page(driver, source_url=url)
Collect(i) ==
    /\ Pc(i) = "collect"
    /\ \E found \in CollectResults :
         proc' = [proc EXCEPT ![i].pc = "rows", ![i].items = found]
    /\ UNCHANGED <<csv, lock, now, ticks>>

\* lines 248-250 and 258-260: the loop over items; an href that is not in
\* seen is added to it, then its row is appended.
\* (the test "href not in seen" left out)
IsNewAlways(href, seen) == TRUE

IsNew(href, seen) == href \notin seen

StreamItem(i) ==
    /\ Pc(i) = "rows"
    /\ LET p == proc[i] IN
       IF p.items = <<>>
       THEN IF p.pass = 1
            THEN proc' = [proc EXCEPT ![i].pc = "click", ![i].clicks = 0, ![i].loops = 0]
            ELSE proc' = [proc EXCEPT ![i] = NextUrl(@)]
       ELSE IF IsNew(Head(p.items), p.global_seen)
            THEN proc' = [proc EXCEPT ![i].pc = "append",
                                      ![i].global_seen = @ \cup {Head(p.items)},
                                      ![i].href = Head(p.items),
                                      ![i].items = Tail(@)]
            ELSE proc' = [proc EXCEPT ![i].items = Tail(@)]
    /\ UNCHANGED <<csv, lock, now, ticks>>

\* append_row_immediate: writer.writerow puts the row into the buffer of fh,
\* fh.flush() writes the buffer to the file (a failing os.fsync is ignored).
\* When flush raises OSError the row stays in the buffer and the exception
\* ends stream_links_from_url for this URL.
AppendRow(i) ==
    /\ Pc(i) = "append"
    /\ LET p == proc[i]
           rows == Append(p.buf, Row(p.href, p.url))
       IN \/ /\ csv' = Flushed(csv, rows)
             /\ proc' = [proc EXCEPT ![i].pc = "rows", ![i].buf = <<>>, ![i].href = <<>>]
          \/ /\ csv' = csv
             /\ proc' = [proc EXCEPT ![i] = [NextUrl(@) EXCEPT !.buf = rows]]
    /\ UNCHANGED <<lock, now, ticks>>

\* click_more_until_stable: one pass through the while loop.  The button is
\* clicked, or the search times out (break), or the element is stale
\* (continue), or click() raises another WebDriverException, which nothing
\* in stream_links_from_url catches.
\* (the second collection pass left out: the next URL after the clicks)
AfterClicksSkip(p) == NextUrl(p)

\* lines 254-255: click_more_until_stable has returned, the links of the
\* page are collected for the second time.
AfterClicks(p) == [p EXCEPT !.pc = "collect", !.pass = 2]

\* (a loop that no number of clicks ends)
CeilingNever(p) == FALSE

\* line 218: while clicks < max_clicks - the test that ends the loop
CeilingReached(p) == p.clicks >= MaxClicks

ClickMore(i) ==
    /\ Pc(i) = "click"
    /\ LET p == proc[i] IN
       IF CeilingReached(p)
       THEN proc' = [proc EXCEPT ![i] = AfterClicks(@)]
       ELSE \/ proc' = [proc EXCEPT ![i].clicks = @ + 1, ![i].loops = @ + 1]
            \/ proc' = [proc EXCEPT ![i] = [AfterClicks(@) EXCEPT !.loops = @ + 1]]
            \/ /\ p.loops < MaxLoops
               /\ proc' = [proc EXCEPT ![i].loops = @ + 1]
            \/ proc' = [proc EXCEPT ![i] = NextUrl(@)]
    /\ UNCHANGED <<csv, lock, now, ticks>>

\* the end of "with open(...) as fh": close() flushes what is buffered, or
\* fails and the buffered rows are lost; the lock is released either way.
CloseCsv(i) ==
    /\ Pc(i) = "close"
    /\ \/ csv' = Flushed(csv, proc[i].buf)
       \/ csv' = csv
    /\ proc' = [proc EXCEPT ![i].pc = "release", ![i].buf = <<>>]
    /\ UNCHANGED <<lock, now, ticks>>

\* the process is killed: its memory, with what it buffered, is lost; its
\* lock file stays
Crash(i) ==
    /\ Running(i)
    /\ proc' = [proc EXCEPT ![i] = [Idle EXCEPT !.pc = "crashed", !.nurls = proc[i].nurls]]
    /\ UNCHANGED <<csv, lock, now, ticks>>

Step(i) ==
    \/ Main(i) \/ EnsureCsv(i) \/ MakeDriver(i)
    \/ LockLoop(i) \/ LockTimeCheck(i) \/ LockStat(i) \/ LockUnlink(i)
    \/ LockSleep(i) \/ LockWrite(i)
    \/ OpenCsv(i) \/ SafeGet(i) \/ WaitTable(i) \/ Collect(i) \/ StreamItem(i)
    \/ AppendRow(i) \/ ClickMore(i) \/ CloseCsv(i)
    \/ LockRelease(i) \/ DriverQuit(i) \/ Crash(i)

\* ======================================================================
\* The parallel detail extractor, src/game_miner_parallel.py
\* ======================================================================
max_workers == 2    \* run_parallel(max_workers=...): threads of the pool

\* the href column of the input CSV can hold
ExtractHrefs ==
    { <<"oefb.at", "/", "a">>,
      <<"oefb.at", "/", "Spielbericht", "/", "a">>,
      <<"oefb.at", "/", "Spielbericht", "/", "Spielbericht", "/", "b">> }

normalize_link(u) == ReplaceInfix(u)

\* load_links: the href column, each value normalised
load_links(hrefs) == [k \in 1..Len(hrefs) |-> normalize_link(hrefs[k])]

\* A record is [link, Quelle, Liga, Spielort_Name, error].  In memory a cell
\* is a text, "" (an empty text), "None" (Python's None) or "NaN" (a key the
\* dict does not have, or an empty cell read back); in the file an empty
\* cell is "".
ToCsvCell(v) == IF v \in {"None", "NaN", ""} THEN "" ELSE v
FromCsvCell(v) == IF v = "" THEN "NaN" ELSE v

ToCsvRow(r) ==
    [link |-> r.link, Quelle |-> r.Quelle, Liga |-> ToCsvCell(r.Liga),
     Spielort_Name |-> ToCsvCell(r.Spielort_Name), error |-> ToCsvCell(r.error)]
FromCsvRow(r) ==
    [link |-> r.link, Quelle |-> r.Quelle, Liga |-> FromCsvCell(r.Liga),
     Spielort_Name |-> FromCsvCell(r.Spielort_Name), error |-> FromCsvCell(r.error)]

\* pd.DataFrame(results).to_csv(out_csv, ...): the whole list, overwriting
to_csv(rows) == [exists |-> TRUE, rows |-> [k \in 1..Len(rows) |-> ToCsvRow(rows[k])]]
\* pd.read_csv(out_csv, ...).to_dict("records")
to_dict(file) == [k \in 1..Len(file.rows) |-> FromCsvRow(file.rows[k])]

\* what the detail page of a link shows during the n-th run
Scraped(n) == IF n = 1 THEN "Liga-1" ELSE "Liga-2"

\* mine_game, lines 183-199: the row of a successful extraction
DataRow(weblink, n) ==
    [link |-> ReplaceInfix(weblink), Quelle |-> weblink, Liga |-> Scraped(n),
     Spielort_Name |-> "", error |-> "NaN"]
\* mine_game, lines 201-208: the row after an exception in the try block
ErrorRow(weblink) ==
    [link |-> ReplaceInfix(weblink), Quelle |-> weblink, Liga |-> "None",
     Spielort_Name |-> "None", error |-> "Message"]
\* run_parallel, line 271: the row when the future itself raised
FutureRow(link) ==
    [link |-> link, Quelle |-> link, Liga |-> "NaN",
     Spielort_Name |-> "NaN", error |-> "FutureException"]

\* the row a finished task hands to the driving loop (fut.result())
RowOf(t, n) ==
    CASE t.outcome = "data" -> DataRow(t.link, n)
      [] t.outcome = "error" -> ErrorRow(t.link)
      [] OTHER -> FutureRow(t.link)

VARIABLES
    input,       \* the href column of the input CSV
    out_csv,     \* the output CSV: [exists, rows]
    run,         \* number of the run_parallel call (0: none yet)
    epc,         \* its position
    flush_every,
    df_existing, \* rows of the output CSV as loaded at the start of the run
    have,
    results,
    todo,
    task,        \* the futures of this run, one per entry of todo
    order,       \* indexes of the futures in the order as_completed gave them
    completed_since_flush

evars == <<input, out_csv, run, epc, flush_every, df_existing, have, results,
           todo, task, order, completed_since_flush>>

NoOut == [exists |-> FALSE, rows |-> <<>>]
Keys(rows) == {rows[k].link : k \in 1..Len(rows)}

\* line 246: todo = [l for l in links_all if l not in have]
Todo(links_all, seen) == SelectSeq(links_all, LAMBDA l : l \notin seen)

NewTask(l) == [link |-> l, st |-> "queued", attempt |-> 1, outcome |-> "none"]


\* (a failed record is not kept)
CollectedUnlessError(rows, row) == IF row.error # "NaN" THEN rows ELSE Append(rows, row)

\* line 272: results.append(row)
Collected(rows, row) == Append(rows, row)

\* (the flush one completion late)
FlushDueLate(n, every) == n > every

\* line 278: if completed_since_flush >= flush_every
FlushDue(n, every) == n >= every

\* ======================================================================
\* get_coordinates (game_miner_parallel.py)

\* An entry of window.SG.container.appPreloads, flattened over its keys and
\* arrays.  latitude and longitude are JavaScript values: a number ("0",
\* "48", "16"), NaN (typeof NaN is 'number' as well) or a value that is no
\* number.
JsNumbers == {"0", "16", "48"}
JsValues == JsNumbers \cup {"NaN", "text"}
Entries == [latitude : JsValues, longitude : JsValues]
\* appPreloads is not there (yet), or holds entries
Absent == [present |-> FALSE, entries |-> <<>>]
PreloadStates ==
    {Absent} \cup {[present |-> TRUE, entries |-> e] : e \in SeqsUpTo(Entries, MaxEntries)}

\* typeof v === 'number'
IsNumber(v) == v \in JsNumbers \cup {"NaN"}

\* (the test for (0,0) left out)
IsNumericPair(obj) == IsNumber(obj.longitude) /\ IsNumber(obj.latitude)

\* lines 33-35 and 46-48: the entry the scripts accept
IsResolved(obj) ==
    /\ IsNumber(obj.longitude) /\ IsNumber(obj.latitude)
    /\ ~(obj.longitude = "0" /\ obj.latitude = "0")

\* what the Python side receives for a JavaScript number of the result
FromJs(v) == IF v = "NaN" THEN "None" ELSE v

\* lines 27-38: the script of the wait
HasResolved(ap) == ap.present /\ \E k \in 1..Len(ap.entries) : IsResolved(ap.entries[k])

\* lines 41-53: the script that reads the pair; <<>> stands for its null
ReadPair(ap) ==
    IF ap.present /\ \E k \in 1..Len(ap.entries) : IsResolved(ap.entries[k])
    THEN LET k == CHOOSE j \in 1..Len(ap.entries) :
                      /\ IsResolved(ap.entries[j])
                      /\ \A i \in 1..(j - 1) : ~IsResolved(ap.entries[i])
         IN <<FromJs(ap.entries[k].latitude), FromJs(ap.entries[k].longitude)>>
    ELSE <<>>

NoPair == <<"None", "None">>

VARIABLES
    appPreloads,  \* the preload structure of the page, as it loads
    gpc,          \* position of get_coordinates
    polls,        \* polls of the WebDriverWait so far
    loads,        \* changes of the page so far
    coords        \* what get_coordinates returned (<<>>: nothing yet)

gvars == <<appPreloads, gpc, polls, loads, coords>>

\* get_coordinates is not running
CoordIdle ==
    /\ appPreloads = Absent /\ gpc = "idle" /\ polls = 0 /\ loads = 0
    /\ coords = <<>>

\* the page goes on loading while get_coordinates polls
PageLoads ==
    /\ gpc \in {"wait", "read"}
    /\ loads < MaxLoads
    /\ loads' = loads + 1
    /\ \E ap \in PreloadStates : ap # appPreloads /\ appPreloads' = ap
    /\ UNCHANGED <<gpc, polls, coords>>

\* lines 26-39: one poll of WebDriverWait(driver, 20).until(...); the wait
\* ends with the first poll that finds an entry, raises TimeoutException
\* when the time is over, and a script that raises ends it as well: the
\* except block returns (None, None)
Poll ==
    /\ gpc = "wait"
    /\ \/ /\ HasResolved(appPreloads)
          /\ gpc' = "read" /\ UNCHANGED <<polls, coords>>
       \/ /\ ~HasResolved(appPreloads) /\ polls < MaxPolls
          /\ polls' = polls + 1 /\ UNCHANGED <<gpc, coords>>
       \/ /\ ~HasResolved(appPreloads) /\ polls = MaxPolls
          /\ gpc' = "returned" /\ coords' = NoPair /\ UNCHANGED polls
       \/ /\ gpc' = "returned" /\ coords' = NoPair /\ UNCHANGED polls
    /\ UNCHANGED <<appPreloads, loads>>

\* lines 40-59: the second script and the return
Read ==
    /\ gpc = "read"
    /\ gpc' = "returned"
    /\ \/ LET result == ReadPair(appPreloads)
          IN coords' = IF result # <<>> THEN result ELSE NoPair
       \/ coords' = NoPair
    /\ UNCHANGED <<appPreloads, polls, loads>>

InitCoord ==
    /\ appPreloads \in PreloadStates
    /\ gpc = "wait" /\ polls = 0 /\ loads = 0 /\ coords = <<>>

\* ======================================================================
\* extract_address_parts (post_processing.py)

\* A text is a sequence of tokens; each token is a run of characters of one
\* kind.  Neighbouring letter and digit tokens form one word ("Wien" "1" is
\* the text Wien1).
Letters == {"Hauptstr", "Wien", "WIEN", "Linz", "Ost"}
Digits == {"1", "1010", "101010"}
Marks == {"-"}                   \* "." and "-", of the pattern's class
DigitLen(t) == CASE t = "1" -> 1 [] t = "1010" -> 4 [] t = "101010" -> 6 [] OTHER -> 0

\* \w of the regular expression
IsWordTok(t) == t \in Letters \cup Digits

\* Python's None and the NaN of an empty cell, as values of a text field
NoneText == <<"None">>
NaNText == <<"NaN">>

\* addr.split(",")
RECURSIVE Split(_)
Split(s) ==
    IF \A k \in 1..Len(s) : s[k] # ","
    THEN <<s>>
    ELSE LET i == CHOOSE k \in 1..Len(s) : s[k] = "," /\ \A j \in 1..(k - 1) : s[j] # ","
         IN <<SubSeq(s, 1, i - 1)>> \o Split(SubSeq(s, i + 1, Len(s)))

\* line 17: [p.strip() for p in addr.split(",") if p.strip()]
Parts(s) ==
    LET segs == Split(s)
    IN SelectSeq([k \in 1..Len(segs) |-> Strip(segs[k])], LAMBDA x : x # <<>>)

\* s.replace(sub, "", 1) for a non-empty sub
RemoveOnce(s, sub) ==
    LET at == {i \in 1..(Len(s) - Len(sub) + 1) : SubSeq(s, i, i + Len(sub) - 1) = sub}
    IN IF at = {} THEN s
       ELSE LET i == CHOOSE k \in at : \A j \in at : k <= j
            IN SubSeq(s, 1, i - 1) \o SubSeq(s, i + Len(sub), Len(s))

RECURSIVE SumDigits(_)
SumDigits(q) == IF q = <<>> THEN 0 ELSE DigitLen(Head(q)) + SumDigits(Tail(q))

\* the last index of the run of tokens of the set S that starts at i
\* (i - 1 when the token at i is not in S)
RECURSIVE RunEnd(_, _, _)
RunEnd(src, i, S) ==
    IF i <= Len(src) /\ src[i] \in S THEN RunEnd(src, i + 1, S) ELSE i - 1

NoMatch == [found |-> FALSE, plz |-> <<>>, ort |-> <<>>]

\* the match of  \b(\d{4,5})\s+([A-Za-zÄÖÜäöüß\.\- ]+)\b  that starts at
\* token i, with group(1).strip() and group(2).strip().  The digits are a
\* whole word of 4 or 5 digits; \s+ takes the blanks after it; group 2 is
\* the longest run of the class that ends at a word boundary; when there is
\* none, \s+ gives back one blank, which is group 2 if a word follows it.
MatchAt(src, i) ==
    LET r == RunEnd(src, i, Letters \cup Digits)
        p == RunEnd(src, r + 1, {" "}) + 1
        q == RunEnd(src, p, Letters \cup Marks \cup {" "})
        NextIsWord(e) == e < Len(src) /\ IsWordTok(src[e + 1])
        ends == {e \in p..q : IsWordTok(src[e]) # NextIsWord(e)}
        plz == SubSeq(src, i, r)
    IN IF /\ i = 1 \/ ~IsWordTok(src[i - 1])
          /\ r >= i
          /\ \A j \in i..r : src[j] \in Digits
          /\ SumDigits(plz) \in {4, 5}
          /\ p > r + 1
       THEN IF ends # {}
            THEN [found |-> TRUE, plz |-> plz,
                  ort |-> Strip(SubSeq(src, p, CHOOSE e \in ends : \A f \in ends : f <= e))]
            ELSE IF p > r + 2 /\ p <= Len(src) /\ IsWordTok(src[p])
                 THEN [found |-> TRUE, plz |-> plz, ort |-> <<>>]
                 ELSE NoMatch
       ELSE NoMatch

\* re.search(pat, src): the match with the leftmost start
Search(src) ==
    LET starts == {i \in 1..Len(src) : MatchAt(src, i).found}
    IN IF starts = {} THEN NoMatch
       ELSE MatchAt(src, CHOOSE i \in starts : \A j \in starts : i <= j)

\* (the second search, in the whole address, left out)
FallbackNone(addr) == NoMatch

\* lines 31-36: the search in the original address
Fallback(addr) == Search(addr)

\* lines 10-38
extract_address_parts(addr) ==
    IF addr \in {NoneText, NaNText}
    THEN [Strasse |-> NoneText, PLZ |-> NoneText, Ort |-> NoneText]
    ELSE LET parts == Parts(addr)
             street == IF parts # <<>> THEN parts[1] ELSE NoneText
             plz_ort_source ==
                 IF Len(parts) > 1 THEN parts[2]
                 ELSE IF parts # <<>> THEN RemoveOnce(addr, street) ELSE addr
             m == Search(plz_ort_source)
             m2 == Fallback(addr)
         IN [Strasse |-> street,
             PLZ |-> IF m.found THEN m.plz ELSE IF m2.found THEN m2.plz ELSE NoneText,
             Ort |-> IF m.found THEN m.ort ELSE IF m2.found THEN m2.ort ELSE NoneText]

\* the address of the example: "Hauptstr 1, 1010 Wien"
ExampleAddr == <<"Hauptstr", " ", "1", ",", " ", "1010", " ", "Wien">>

\* the comma segments the addresses are put together from
Segments ==
    { <<>>, <<" ">>,
      <<"Hauptstr", " ", "1">>,
      <<" ", "1010", " ", "Wien">>,
      <<"1010", " ", "WIEN", " ">>,
      <<" ", "1010", " ", "Linz">>,
      <<"Wien">>,
      <<"101010", " ", "Wien">>,
      <<"1", "1010", " ", "Wien", "-", "Ost">>,
      <<"1010", " ", " ", "Wien", "1">>,
      <<"Wien", "1010", " ", "Wien">>,
      <<"1010", " ", "1">> }

RECURSIVE Join(_)
Join(segs) ==
    IF Len(segs) = 1 THEN segs[1] ELSE segs[1] \o <<",">> \o Join(Tail(segs))

Addresses ==
    {Join(q) : q \in SeqsUpTo(Segments, MaxSegments) \ {<<>>}} \cup {NaNText}

VARIABLES
    addr,           \* the Adresse cell
    address_parts   \* what extract_address_parts returned for it

avars == <<addr, address_parts>>

NoParts == [Strasse |-> <<>>, PLZ |-> <<>>, Ort |-> <<>>]

\* extract_address_parts is not running
AddrIdle == addr = <<>> /\ address_parts = NoParts

InitAddr == addr \in Addresses /\ address_parts = NoParts

\* line 84: extract_address_parts applied to one cell
Extract ==
    /\ address_parts = NoParts
    /\ address_parts' = extract_address_parts(addr)
    /\ UNCHANGED addr

\* ======================================================================
\* post_processing.py: main

\* A row of the detail CSV as read: Quelle is the source link (here the
\* number of the row), Datum a date (1, 2) or 0 for a cell that does not
\* parse (NaT), Heim a text or "NaN", Adresse a text or NaN, Latitude and
\* Longitude a number or "NaN".
GersthofLat == "48.225324870552456"
GersthofLon == "16.328420452719126"
PostAddresses ==
    { NaNText,
      ExampleAddr,
      <<"1010", " ", "WIEN", " ">>,
      <<" ", "1010", " ", "Linz">>,
      <<"Wien">> }
PostCells ==
    [Datum : 0..MaxDatum, Heim : {"Gersthofer SV", "SV Linz", "NaN"},
     Adresse : PostAddresses, Latitude : {"48.2", "NaN"}, Longitude : {"16.3", "NaN"}]
WithQuelle(cells, n) ==
    [Quelle |-> n, Datum |-> cells.Datum, Heim |-> cells.Heim, Adresse |-> cells.Adresse,
     Latitude |-> cells.Latitude, Longitude |-> cells.Longitude]
PostInputs ==
    {[k \in 1..Len(q) |-> WithQuelle(q[k], k)] : q \in SeqsUpTo(PostCells, MaxRows)}

\* str.lower() of a token
LowerTok(t) == IF t \in {"Wien", "WIEN"} THEN "wien" ELSE t

\* (a null Ort passes the filter)
InWienOrNull(ort) == ort = NoneText \/ \E k \in 1..Len(ort) : LowerTok(ort[k]) = "wien"

\* line 89: df["Ort"].str.contains("wien", case=False, na=False)
InWien(ort) == ort # NoneText /\ \E k \in 1..Len(ort) : LowerTok(ort[k]) = "wien"

\* lines 84-85: the row with the three columns of its address
WithParts(r) ==
    LET parts == extract_address_parts(r.Adresse)
    IN [Quelle |-> r.Quelle, Datum |-> r.Datum, Heim |-> r.Heim,
        Strasse |-> parts.Strasse, PLZ |-> parts.PLZ, Ort |-> parts.Ort,
        Latitude |-> r.Latitude, Longitude |-> r.Longitude]

\* (the correction fills missing coordinates only)
CorrectedIfMissing(r) ==
    IF r.Heim = "Gersthofer SV" /\ r.Latitude = "NaN" /\ r.Longitude = "NaN"
    THEN [r EXCEPT !.Latitude = GersthofLat, !.Longitude = GersthofLon]
    ELSE r

\* lines 105-107: the manual correction
Corrected(r) ==
    IF r.Heim = "Gersthofer SV"
    THEN [r EXCEPT !.Latitude = GersthofLat, !.Longitude = GersthofLon]
    ELSE r

\* (one missing coordinate is enough)
OneMissing(r) == r.Latitude = "NaN" \/ r.Longitude = "NaN"

\* line 110: df_out["Latitude"].isna() & df_out["Longitude"].isna()
BothMissing(r) == r.Latitude = "NaN" /\ r.Longitude = "NaN"

\* line 102: sort_values("Datum") puts the rows in the order of their dates,
\* NaT last; the order of rows with the same date is not fixed
DatumKey(r) == IF r.Datum = 0 THEN MaxDatum + 1 ELSE r.Datum
SortedByDatum(rows) ==
    {[k \in 1..Len(rows) |-> rows[f[k]]] :
        f \in {g \in [1..Len(rows) -> 1..Len(rows)] :
                  /\ \A i, j \in 1..Len(rows) : i # j => g[i] # g[j]
                  /\ \A i, j \in 1..Len(rows) :
                        i < j => DatumKey(rows[g[i]]) <= DatumKey(rows[g[j]])}}

\* to_csv: a missing value is written as an empty cell
PostCell(v) == IF v = NoneText THEN <<>> ELSE v
PostCsvRow(r) ==
    [Quelle |-> r.Quelle, Datum |-> r.Datum,
     Heim |-> IF r.Heim = "NaN" THEN "" ELSE r.Heim,
     Strasse |-> PostCell(r.Strasse), PLZ |-> PostCell(r.PLZ), Ort |-> PostCell(r.Ort),
     Latitude |-> IF r.Latitude = "NaN" THEN "" ELSE r.Latitude,
     Longitude |-> IF r.Longitude = "NaN" THEN "" ELSE r.Longitude]
PostCsv(rows) == [exists |-> TRUE, rows |-> [k \in 1..Len(rows) |-> PostCsvRow(rows[k])]]

VARIABLES
    in_csv,      \* rows of the input CSV
    ppc,         \* position of main: "start", "done", "failed"
    output_csv,  \* martiballtermine_wien.csv: [exists, rows]
    fails_csv    \* fails.csv: [exists, rows]

pvars == <<in_csv, ppc, output_csv, fails_csv>>

PostIdle ==
    /\ in_csv = <<>> /\ ppc = "idle" /\ output_csv = NoOut /\ fails_csv = NoOut

InitPost ==
    /\ in_csv \in PostInputs /\ ppc = "start" /\ output_csv = NoOut /\ fails_csv = NoOut

\* main, lines 72-115.  With an input that has no rows, apply() returns an
\* empty Series, the frame gets no Ort column and line 88 raises KeyError.
PostMain ==
    /\ ppc = "start"
    /\ IF in_csv = <<>>
       THEN ppc' = "failed" /\ UNCHANGED <<output_csv, fails_csv>>
       ELSE LET df == [k \in 1..Len(in_csv) |-> WithParts(in_csv[k])]
                df_wien == SelectSeq(df, LAMBDA r : InWien(r.Ort))
            IN \E sorted \in SortedByDatum(df_wien) :
                  LET df_out == [k \in 1..Len(sorted) |-> Corrected(sorted[k])]
                      df_nan == SelectSeq(df_out, BothMissing)
                  IN /\ fails_csv' = PostCsv(df_nan)
                     /\ output_csv' = PostCsv(df_out)
                     /\ ppc' = "done"
    /\ UNCHANGED in_csv

\* ======================================================================
\* create_martiball_json.py

\* The text columns of the clean CSV that build_record reads
TextColumns == {"Heim", "Gast", "Typ", "Liga", "Spielort_Name", "Strasse", "Ort"}

\* A row of the clean CSV: a cell is a text or empty ("").  The rows the
\* tool is given have all text cells, none, or all but one.
EmptyCellSets == {{}, TextColumns} \cup {{c} : c \in TextColumns}
JsonCsvRows ==
    {[Datum |-> d, PLZ |-> z, Latitude |-> lat]
        @@ [c \in TextColumns |-> IF c \in e THEN "" ELSE "text"] :
        d \in 0..MaxDatum, z \in {"", "1190"}, lat \in {"", "48.2"}, e \in EmptyCellSets}
JsonInputs == SeqsUpTo(JsonCsvRows, MaxRows)

\* pd.read_csv: an empty cell is NaN; a column of whole numbers is read as
\* integers, and as floats when one of its cells is empty
ReadText(cell) == IF cell = "" THEN "NaN" ELSE cell
ReadPLZ(cell, column) ==
    IF cell = "" THEN "NaN"
    ELSE IF \E k \in 1..Len(column) : column[k] = "" THEN "1190.0" ELSE cell
ReadJsonCsv(file) ==
    [k \in 1..Len(file) |->
        [Datum |-> file[k].Datum,
         PLZ |-> ReadPLZ(file[k].PLZ, [j \in 1..Len(file) |-> file[j].PLZ]),
         Latitude |-> ReadText(file[k].Latitude)]
        @@ [c \in TextColumns |-> ReadText(file[k][c])]]

\* lines 37-44: (v or "") if isinstance(v, str) else str(v or "").  NaN is
\* a float and is true, so str() renders it; None gives "".
StrField(v) ==
    IF v = "None" THEN ""
    ELSE IF v = "NaN" THEN "nan"
    ELSE v

\* to_int_or_none: int(str(v).strip()), None when v is NaN or int() raises
to_int_or_none(v) == IF v \in {"NaN", "1190.0"} THEN "None" ELSE v
\* to_float_or_none
to_float_or_none(v) == IF v = "NaN" THEN "None" ELSE v

\* build_record, lines 30-48
build_record(row) ==
    [Spieldatum |-> row.Datum,
     Heimmannschaft |-> StrField(row.Heim),
     Gastmannschaft |-> StrField(row.Gast),
     Typ |-> StrField(row.Typ),
     Liga |-> StrField(row.Liga),
     Spielort |-> StrField(row.Spielort_Name),
     SpielortStrasse |-> StrField(row.Strasse),
     SpielortPLZ |-> to_int_or_none(row.PLZ),
     SpielortOrt |-> StrField(row.Ort),
     Latitude |-> to_float_or_none(row.Latitude)]

\* line 71: sort_values(["Datum", "Liga", "Heim"], na_position="last")
NaLast(v) == IF v = "NaN" THEN 1 ELSE 0
JsonKeyLeq(a, b) ==
    \/ DatumKey(a) < DatumKey(b)
    \/ /\ DatumKey(a) = DatumKey(b)
       /\ \/ NaLast(a.Liga) < NaLast(b.Liga)
          \/ NaLast(a.Liga) = NaLast(b.Liga) /\ NaLast(a.Heim) <= NaLast(b.Heim)
SortedForJson(rows) ==
    {[k \in 1..Len(rows) |-> rows[f[k]]] :
        f \in {g \in [1..Len(rows) -> 1..Len(rows)] :
                  /\ \A i, j \in 1..Len(rows) : i # j => g[i] # g[j]
                  /\ \A i, j \in 1..Len(rows) : i < j => JsonKeyLeq(rows[g[i]], rows[g[j]])}}

VARIABLES
    wien_csv,   \* rows of the clean CSV the tool reads
    jpc,        \* position of main: "start", "done"
    json_df,    \* the frame after the sort
    records     \* the records of the JSON document

jvars == <<wien_csv, jpc, json_df, records>>

JsonIdle == wien_csv = <<>> /\ jpc = "idle" /\ json_df = <<>> /\ records = <<>>

InitJson == wien_csv \in JsonInputs /\ jpc = "start" /\ json_df = <<>> /\ records = <<>>

\* main, lines 66-81
JsonMain ==
    /\ jpc = "start"
    /\ \E df \in SortedForJson(ReadJsonCsv(wien_csv)) :
          /\ json_df' = df
          /\ records' = [k \in 1..Len(df) |-> build_record(df[k])]
    /\ jpc' = "done"
    /\ UNCHANGED wien_csv

\* ======================================================================
\* mine_game on one detail page (game_miner_parallel.py lines 116-210)
\* ======================================================================
\* what get_bewerb's script finds in the preload structure: a competition
\* label, or nothing (null)
Bewerbe == {"null", "Liga", "Frauen-Liga"}

\* the detail page, fully loaded: the text of .round, the preload structure
\* with the coordinates, and the label in it
Pages == [runde : {"Runde-1"}, ap : PreloadStates, bewerb : Bewerbe]

VARIABLES
    game_weblink,   \* mine_game: weblink
    page,      \* the page that the link leads to
    game       \* position and local variables of mine_game

mvars == <<game_weblink, page, game>>

NoGame == [pc |-> "idle", runde |-> "", liga |-> "", lat |-> "None", lon |-> "None",
           raised |-> "none", row |-> <<>>]

MineIdle == game_weblink = <<>> /\ page = <<>> /\ game = NoGame

InitMine ==
    /\ game_weblink \in ExtractHrefs
    /\ page \in Pages
    /\ game = [NoGame EXCEPT !.pc = "get"]

\* lines 183-199: the row of a successful extraction; it has no error key
GameRow(link, g) ==
    [Liga |-> g.liga,
     Typ |-> IF g.liga = "Frauen-Liga" THEN "Frau" ELSE "Mann",
     Runde |-> g.runde,
     Latitude |-> g.lat, Longitude |-> g.lon,
     Quelle |-> link, link |-> ReplaceInfix(link), error |-> "NaN"]

\* lines 201-208: except Exception as e - the error row
ExceptRow(link, e) ==
    [Liga |-> "None", Typ |-> "None", Runde |-> "None",
     Latitude |-> "None", Longitude |-> "None",
     Quelle |-> link, link |-> ReplaceInfix(link), error |-> e]

\* an exception in the try block of mine_game: the except block returns
Raise(g, e) == [g EXCEPT !.pc = "returned", !.raised = e, !.row = ExceptRow(game_weblink, e)]

\* line 122: safe_get returns, or raises after its last attempt
MineGet ==
    /\ game.pc = "get"
    /\ \/ game' = [game EXCEPT !.pc = "container"]
       \/ game' = Raise(game, "safe_get")
    /\ UNCHANGED <<game_weblink, page>>

\* lines 123-140: the wait for the container and the reads of the top fields
\* and the teams; each of them can raise
MineContainer ==
    /\ game.pc = "container"
    /\ \/ game' = [game EXCEPT !.pc = "bewerb", !.runde = page.runde]
       \/ game' = Raise(game, "container")
    /\ UNCHANGED <<game_weblink, page>>

\* line 142: liga = get_bewerb(container) or "".  get_bewerb waits for the
\* preload structure (lines 63-65); the TimeoutException of that wait is not
\* caught in get_bewerb.
MineBewerb ==
    /\ game.pc = "bewerb"
    /\ IF page.ap.present
       THEN game' = [game EXCEPT !.pc = "coordinates",
                                 !.liga = IF page.bewerb = "null" THEN "" ELSE page.bewerb]
       ELSE game' = Raise(game, "get_bewerb")
    /\ UNCHANGED <<game_weblink, page>>

\* (the timeout of the coordinate wait left uncaught)
CoordinatesRaise(g) == Raise(g, "get_coordinates")

\* lines 58-59: except Exception: return None, None
CoordinatesNone(g) == [g EXCEPT !.pc = "row", !.lat = NoPair[1], !.lon = NoPair[2]]

\* line 177: lat, lon = get_coordinates(container).  The wait finds an entry
\* and the pair is read, or the wait times out.
MineCoordinates ==
    /\ game.pc = "coordinates"
    /\ IF HasResolved(page.ap)
       THEN LET result == ReadPair(page.ap)
            IN game' = [game EXCEPT !.pc = "row", !.lat = result[1], !.lon = result[2]]
       ELSE game' = CoordinatesNone(game)
    /\ UNCHANGED <<game_weblink, page>>

\* lines 179-199: the row is built and returned
MineReturn ==
    /\ game.pc = "row"
    /\ game' = [game EXCEPT !.pc = "returned", !.row = GameRow(game_weblink, game)]
    /\ UNCHANGED <<game_weblink, page>>

\* ======================================================================
\* safe_get (fminer.py lines 202-212, game_miner_parallel.py lines 103-112:
\* the same loop in both files)
\* ======================================================================
\* what one call of driver.get(url) can do: return, raise TimeoutException,
\* raise another WebDriverException, or raise an exception of another class
\* (the connection to the browser driver is gone)
GetOutcomes == {"ok", "TimeoutException", "WebDriverException", "OtherException"}

\* except (TimeoutException, WebDriverException)
Caught == {"TimeoutException", "WebDriverException"}

\* the outcomes of the successive calls of driver.get
OutcomeSeqs == [1..MaxOutcomes -> GetOutcomes]

VARIABLES
    get_outcomes,   \* what the k-th call of driver.get will do
    get_pc,         \* position in safe_get
    get_i,          \* safe_get: i
    get_calls,      \* calls of driver.get so far
    get_slept,      \* the arguments of time.sleep so far, in tenths of a second
    get_err         \* the exception that left safe_get

svars == <<get_outcomes, get_pc, get_i, get_calls, get_slept, get_err>>

GetIdle ==
    /\ get_outcomes = <<>> /\ get_pc = "idle" /\ get_i = 0
    /\ get_calls = 0 /\ get_slept = <<>> /\ get_err = "none"

\* safe_get(driver, url, attempts=3): for i in range(1, attempts + 1)
InitGet ==
    /\ get_outcomes \in OutcomeSeqs
    /\ get_pc = "try" /\ get_i = 1
    /\ get_calls = 0 /\ get_slept = <<>> /\ get_err = "none"

\* driver.get(url); return  - or the except clause, or an exception that the
\* except clause does not name
GetTry ==
    /\ get_pc = "try"
    /\ get_calls' = get_calls + 1
    /\ LET outcome == get_outcomes[get_calls + 1] IN
         /\ get_pc' = IF outcome = "ok" THEN "returned"
                       ELSE IF outcome \in Caught THEN "except" ELSE "raised"
         /\ get_err' = IF outcome = "ok" THEN "none" ELSE outcome
    /\ UNCHANGED <<get_outcomes, get_i, get_slept>>

\* (the last attempt not told from the others)
IsLastNever(i) == FALSE

\* if i == attempts
IsLast(i) == i = Attempts

\* if i == attempts: raise
GetExcept ==
    /\ get_pc = "except"
    /\ get_pc' = IF IsLast(get_i) THEN "raised" ELSE "sleep"
    /\ UNCHANGED <<get_outcomes, get_i, get_calls, get_slept, get_err>>

\* time.sleep(1.5 * i), then the next i of the loop
GetSleep ==
    /\ get_pc = "sleep"
    /\ get_slept' = Append(get_slept, backoff10 * get_i)
    /\ get_i' = get_i + 1
    /\ get_pc' = "try"
    /\ get_err' = "none"
    /\ UNCHANGED <<get_outcomes, get_calls>>

tvars == <<gvars, avars, pvars, jvars, svars, mvars>>

ToolsIdle == CoordIdle /\ AddrIdle /\ PostIdle /\ JsonIdle /\ GetIdle /\ MineIdle

vars == <<cvars, evars, tvars>>

\* no extractor run
ExtractorIdle ==
    /\ input = <<>> /\ out_csv = NoOut /\ run = 0 /\ epc = "idle"
    /\ flush_every = 1 /\ df_existing = <<>> /\ have = {} /\ results = <<>>
    /\ todo = <<>> /\ task = <<>> /\ order = <<>> /\ completed_since_flush = 0

\* no crawler process
CrawlerIdle ==
    /\ csv = NoFile /\ lock = NoLock /\ now = 0 /\ ticks = 0
    /\ proc = [i \in Inst |-> Idle]

\* the output file is there and cannot be loaded: it was written from an
\* empty frame and has no columns
Unreadable(file) == file.exists /\ file.rows = <<>>

\* (the file is not created)
EnsureOutNever(file, rows) == file

\* lines 250-251: if not os.path.exists(out_csv): DataFrame(results).to_csv
EnsureOut(file, rows) == IF file.exists THEN file ELSE to_csv(rows)

\* run_parallel, lines 233-265: the links and the existing output are
\* loaded, the work list is computed, and either nothing is left to do or
\* one future per entry of todo is submitted to the pool.  Reading a file
\* that was written from an empty frame raises (it has no link column).
RunStart ==
    /\ epc \in {"idle", "returned", "killed", "failed"}
    /\ run < MaxRuns
    /\ run' = run + 1
    /\ \E fe \in 1..MaxFlushEvery : flush_every' = fe
    /\ IF Unreadable(out_csv)
       THEN /\ epc' = "failed"
            /\ UNCHANGED <<out_csv, df_existing, have, results, todo, task, order,
                           completed_since_flush>>
       ELSE LET loaded == IF out_csv.exists THEN to_dict(out_csv) ELSE <<>>
                work == Todo(load_links(input), Keys(loaded))
            IN /\ df_existing' = loaded
               /\ have' = Keys(loaded)
               /\ results' = loaded
               /\ todo' = work
               /\ task' = [k \in 1..Len(work) |-> NewTask(work[k])]
               /\ order' = <<>>
               /\ completed_since_flush' = 0
               /\ IF work = <<>>
                  THEN /\ epc' = "returned"
                       /\ out_csv' = EnsureOut(out_csv, loaded)
                  ELSE /\ epc' = "loop"
                       /\ out_csv' = out_csv
    /\ UNCHANGED input

Busy(t) == t.st \in {"open_driver", "get", "wait"}
SetTask(k, t) ==
    /\ task' = [task EXCEPT ![k] = t]
    /\ UNCHANGED <<input, out_csv, run, epc, flush_every, df_existing, have, results,
                   todo, order, completed_since_flush>>
Finished(t, how) == [t EXCEPT !.st = "done", !.outcome = how]

\* a thread of the pool takes the next queued future
TaskStart(k) ==
    /\ epc = "loop" /\ k \in 1..Len(task)
    /\ task[k].st = "queued"
    /\ \A j \in 1..(k - 1) : task[j].st # "queued"
    /\ Cardinality({j \in 1..Len(task) : Busy(task[j])}) < max_workers
    /\ SetTask(k, [task[k] EXCEPT !.st = "open_driver"])

\* mine_game, line 120: open_driver is outside the try block, so what it
\* raises leaves mine_game and is raised again by fut.result()
TaskOpenDriver(k) ==
    /\ epc = "loop" /\ k \in 1..Len(task)
    /\ task[k].st = "open_driver"
    /\ \/ SetTask(k, [task[k] EXCEPT !.st = "get"])
       \/ SetTask(k, Finished(task[k], "future_exception"))

\* mine_game, line 122: safe_get(driver, weblink, attempts=3) returns when
\* one of its attempts succeeds, or raises what the last attempt raised
TaskGet(k) ==
    /\ epc = "loop" /\ k \in 1..Len(task)
    /\ task[k].st = "get"
    /\ \/ SetTask(k, [task[k] EXCEPT !.st = "wait"])
       \/ SetTask(k, [Finished(task[k], "error") EXCEPT !.attempt = Attempts])

\* mine_game, lines 123-199: the waits and reads succeed and the row is
\* returned, or one of them raises (a wait times out) and the except block
\* returns the error row
TaskExtract(k) ==
    /\ epc = "loop" /\ k \in 1..Len(task)
    /\ task[k].st = "wait"
    /\ \/ SetTask(k, Finished(task[k], "data"))
       \/ SetTask(k, Finished(task[k], "error"))

\* lines 266-280: one pass of "for fut in as_completed(future_map)"
Handle(k) ==
    /\ epc = "loop" /\ k \in 1..Len(task)
    /\ task[k].st = "done"
    /\ k \notin Range(order)
    /\ LET row == RowOf(task[k], run)
           all == Collected(results, row)
       IN /\ results' = all
          /\ have' = have \cup {row.link}
          /\ order' = Append(order, k)
          /\ IF FlushDue(completed_since_flush + 1, flush_every)
             THEN out_csv' = to_csv(all) /\ completed_since_flush' = 0
             ELSE out_csv' = out_csv
                  /\ completed_since_flush' = completed_since_flush + 1
    /\ UNCHANGED <<input, run, epc, flush_every, df_existing, todo, task>>

\* lines 282-284: the final write_out() after the pool has shut down
FinalWrite ==
    /\ epc = "loop"
    /\ Len(order) = Len(task)
    /\ out_csv' = to_csv(results)
    /\ epc' = "returned"
    /\ UNCHANGED <<input, run, flush_every, df_existing, have, results, todo, task,
                   order, completed_since_flush>>

\* the process is killed while the pool works: its memory is lost
Kill ==
    /\ epc = "loop"
    /\ epc' = "killed"
    /\ df_existing' = <<>> /\ have' = {} /\ results' = <<>> /\ todo' = <<>>
    /\ task' = <<>> /\ order' = <<>> /\ completed_since_flush' = 0
    /\ UNCHANGED <<input, out_csv, run, flush_every>>

InitExtract ==
    /\ CrawlerIdle
    /\ ToolsIdle
    /\ input \in SeqsUpTo(ExtractHrefs, MaxLinks)
    /\ out_csv = NoOut /\ run = 0 /\ epc = "idle"
    /\ flush_every = 1 /\ df_existing = <<>> /\ have = {} /\ results = <<>>
    /\ todo = <<>> /\ task = <<>> /\ order = <<>> /\ completed_since_flush = 0

TaskStep(k) == TaskStart(k) \/ TaskOpenDriver(k) \/ TaskGet(k) \/ TaskExtract(k)

\* runs that are not killed
NextRun ==
    /\ \/ RunStart
       \/ \E k \in 1..MaxLinks : TaskStep(k) \/ Handle(k)
       \/ FinalWrite
    /\ UNCHANGED <<cvars, tvars>>

NextExtract ==
    /\ \/ RunStart
       \/ \E k \in 1..MaxLinks : TaskStep(k) \/ Handle(k)
       \/ FinalWrite
       \/ Kill
    /\ UNCHANGED <<cvars, tvars>>

SpecExtract == InitExtract /\ [][NextExtract]_vars

\* The pool's threads and the driving thread keep running, and every wait
\* of a task is bounded by a timeout: some step is always taken.
SpecExtractFair == InitExtract /\ [][NextRun]_vars /\ WF_vars(NextRun)

\* ----------------------------------------------------------------------
\* Properties of the extractor

\* the key under which mine_game files a submitted link
KeyOf(weblink) == DataRow(weblink, 1).link

\* C3: in a second run on the same input and output, no link whose key is
\* among the rows loaded from the first run's output is submitted again,
\* and when the run returns the output has a row for every loaded key and
\* every loaded row without an error is in it with the same cells.
C3_ResumeKeepsAndSkips ==
    (run >= 2 /\ epc \in {"loop", "returned"}) =>
        /\ \A k \in 1..Len(todo) : KeyOf(todo[k]) \notin Keys(df_existing)
        /\ epc = "returned" =>
              \A r \in Range(df_existing) :
                  /\ r.link \in Keys(out_csv.rows)
                  /\ r.error = "NaN" => ToCsvRow(r) \in Range(out_csv.rows)

\* C4: a link whose extraction failed has a record with an error that is
\* in the result list with its key in the processed set, the output holds
\* the result list when the run returns, and a resumed run's work list
\* holds no link for which the loaded output has an error record.
C4_FailedNeverRetried ==
    /\ epc \in {"loop", "returned"} =>
          \A j \in 1..Len(order) :
              task[order[j]].outcome # "data" =>
                  \E r \in Range(results) :
                      /\ r.Quelle = task[order[j]].link
                      /\ r.error \notin {"NaN", "None", ""}
                      /\ r.link \in have
    /\ (epc = "returned" /\ todo # <<>>) => out_csv = to_csv(results)
    /\ (run >= 2 /\ epc \in {"loop", "returned"}) =>
          \A k \in 1..Len(todo) :
              ~ \E r \in Range(df_existing) :
                    r.error # "NaN" /\ r.Quelle = todo[k]

\* at the return of a run that had work: one new record per work-list
\* entry, each determined by that entry's own outcome
OneRecordPerEntry ==
    /\ Len(results) = Len(df_existing) + Len(todo)
    /\ \A j \in 1..Len(df_existing) : results[j] = df_existing[j]
    /\ Len(order) = Len(todo)
    /\ Range(order) = 1..Len(todo)
    /\ \A j \in 1..Len(order) :
          LET t == task[order[j]]
              r == results[Len(df_existing) + j]
          IN /\ t.link = todo[order[j]]
             /\ r.Quelle = t.link
             /\ t.outcome = "data" => r = DataRow(t.link, run)
             /\ t.outcome # "data" => r.error \notin {"NaN", "None", ""}
    /\ out_csv.exists
    /\ Len(out_csv.rows) = Len(results)
    /\ \A j \in 1..Len(results) : out_csv.rows[j] = ToCsvRow(results[j])

\* C5: a run that has submitted its work list returns, whatever fails for
\* which link, and at the return the result list and the output hold
\* exactly one new record for each work-list entry, a data record where the
\* entry's own extraction succeeded and an error record where it failed.
C5_AllComplete ==
    /\ [](epc = "loop" => <>(epc = "returned"))
    /\ []((epc = "returned" /\ todo # <<>>) => OneRecordPerEntry)

C5_Witness ==
    /\ epc = "returned" /\ Len(todo) = MaxLinks
    /\ \E j, k, l \in 1..Len(task) :
          /\ task[j].outcome = "data"
          /\ task[k].outcome = "error" /\ task[k].attempt = Attempts
          /\ task[l].outcome = "future_exception"

\* C9: whenever the driving loop is at its top, fewer than flush_every
\* records of the result list are missing from the output; every write
\* puts the whole result list into the file, and the set of link keys in
\* the file never shrinks.
C9_FlushBound ==
    [][ /\ epc' = "loop" =>
              /\ out_csv'.exists \/ Len(results') < flush_every'
              /\ Len(results') - Len(out_csv'.rows) < flush_every'
              /\ \A j \in 1..Len(out_csv'.rows) : out_csv'.rows[j] = ToCsvRow(results'[j])
        /\ out_csv' # out_csv =>
              /\ Len(out_csv'.rows) = Len(results')
              /\ \A j \in 1..Len(results') : out_csv'.rows[j] = ToCsvRow(results'[j])
              /\ Len(df_existing') <= Len(results')
              /\ \A j \in 1..Len(df_existing') : results'[j] = df_existing'[j]
              /\ Keys(out_csv.rows) \subseteq Keys(out_csv'.rows)
      ]_vars

C9_Witness ==
    /\ epc = "loop" /\ flush_every = 2
    /\ Len(df_existing) > 0
    /\ Len(order) = 2 /\ Len(task) > 2
    /\ completed_since_flush = 0
    /\ Len(out_csv.rows) = Len(df_existing) + 2

\* C22: the output of the extractor holds at most one record per normalized
\* link key - at every point of every run, first or resumed, and for every
\* list of input links, also one in which two hrefs have the same normalized
\* form.
C22_OneRecordPerKey ==
    out_csv.exists => NoRepeat([k \in 1..Len(out_csv.rows) |-> out_csv.rows[k].link])


\* every link of the input has its key in the output file, or there is
\* no link
NothingToDo ==
    \A k \in 1..Len(input) :
        \E j \in 1..Len(out_csv.rows) : out_csv.rows[j].link = normalize_link(input[k])

\* C16: a run that starts with nothing to do submits no task (and so opens
\* no browser session); when it returns the output file exists, and a file
\* that existed is unchanged.
C16_EmptyWorkList ==
    [][ (run' = run + 1 /\ NothingToDo) =>
          /\ epc' \in {"returned", "failed"}
          /\ task' = <<>> \/ (epc' = "failed" /\ task' = task)
          /\ epc' = "returned" => out_csv'.exists
          /\ out_csv.exists => out_csv' = out_csv
      ]_vars

\* a second run after a first one that has handled every link
C16_Witness ==
    /\ run = 2 /\ epc = "returned" /\ input # <<>>
    /\ todo = <<>> /\ task = <<>>
    /\ Len(out_csv.rows) = Len(input)

\* C19: a run that cannot read the existing CSV at resume goes on as if
\* there were no prior state instead of crashing.  For the extractor: a run
\* that starts on an output file it cannot load continues with an empty
\* processed set and an empty result list.  (The crawler's
\* load_existing_hrefs catches the exception and returns the empty set.)
C19_ReadFailureIsNoPriorState ==
    [][ (run' = run + 1 /\ Unreadable(out_csv)) =>
          /\ epc' \in {"loop", "returned"}
          /\ have' = {} /\ results' = <<>>
          /\ todo' = load_links(input)
      ]_vars

\* A lock file that an earlier, killed process left behind.
LeftLock == [exists |-> TRUE, mtime |-> 0, owner |-> 0]

\* ------------------------------------------------ one crawler run (Spec)
Init ==
    /\ csv \in {NoFile, EmptyFile} \cup PriorFiles
    /\ \/ lock = NoLock /\ now = 0
       \/ lock = LeftLock /\ now \in {0, StaleSecs + 1}
    /\ ticks = 0
    /\ proc = [i \in Inst |-> IF i = 1 THEN [Idle EXCEPT !.pc = "main", !.nurls = NumUrls]
                                ELSE Idle]
    /\ ExtractorIdle
    /\ ToolsIdle

Next ==
    /\ Step(1) \/ Tick
    /\ UNCHANGED <<evars, tvars>>

Spec == Init /\ [][Next]_vars


\* ---------------------------------------------------------------- C1
IsPrefix(old, new) == Len(old) <= Len(new) /\ SubSeq(new, 1, Len(old)) = old

\* the data rows that are in the file or in the buffer of process i
Written(i) == DataRows(csv.lines \o proc[i].buf)

AppendOnly(old, new) ==
    /\ old.exists => new.exists
    /\ IsPrefix(old.lines, new.lines)
    /\ \A k \in (Len(old.lines) + 1)..Len(new.lines) :
         IF new.lines[k].kind = "header"
         THEN NeedsHeader(old) /\ k = 1
         ELSE new.lines[k].href \notin HrefsOf(old.lines)

C10_SeenIsFlushed ==
    \A h \in proc[1].global_seen \ proc[1].existing_hrefs :
        \/ h \in HrefsOf(csv.lines)
        \/ Pc(1) = "append" /\ proc[1].href = h


\* ---------------------------------------------------------------- C18
\* C18 as stated: while one listing URL is worked on, every click on the
\* load-more control is followed by a collection of the links before the
\* next click; that is, no click is made while an earlier click on this URL
\* has not been followed by a collection.  (In "click" with clicks >= 1 the
\* last click has had no collection yet.)
C18_CollectAfterEachClick ==
    [][ ~( /\ Pc(1) = "click" /\ proc[1].clicks >= 1
           /\ proc'[1].pc = "click"
           /\ proc'[1].clicks = proc[1].clicks + 1 ) ]_vars

\* C18 as the code has it: the links of a listing URL are collected twice,
\* once before the first click and once after the click loop has ended (no
\* button found, or the ceiling of clicks reached); in both passes every
\* collected href that is not in the global seen-set is added to it and
\* handed to the row write; while the clicks go on nothing is collected
\* and nothing is written.
C18_CollectBeforeAndAfterClicks ==
    [][ LET p == proc[1]
            q == proc'[1]
        IN  q.pc = "crashed" \/
            /\ (q.pc = "collect" /\ p.pc # "collect") =>
                  \/ p.pc = "wait_table" /\ q.pass = 1
                  \/ p.pc = "click" /\ q.pass = 2
            /\ (p.pc = "rows" /\ p.items = <<>> /\ p.pass = 1) =>
                  q.pc = "click" /\ q.clicks = 0 /\ q.url = p.url
            /\ p.pc = "click" =>
                  /\ csv' = csv /\ q.global_seen = p.global_seen
                  /\ q.pc \in {"click", "collect", "nav", "close"}
                  /\ q.url = p.url => q.pc \in {"click", "collect"}
                  /\ q.pc = "click" => q.clicks \in {p.clicks, p.clicks + 1}
                  /\ p.clicks >= MaxClicks => q.pc = "collect"
                  /\ q.pc = "collect" => q.pass = 2 /\ q.url = p.url
            /\ (p.pc = "rows" /\ p.items # <<>>) =>
                  IF Head(p.items) \notin p.global_seen
                  THEN /\ q.pc = "append" /\ q.href = Head(p.items)
                       /\ q.global_seen = p.global_seen \cup {Head(p.items)}
                       /\ q.items = Tail(p.items)
                  ELSE q.pc = "rows" /\ q.items = Tail(p.items) /\ csv' = csv
      ]_vars

\* two clicks in a row on one URL, then the second collection pass has found
\* an href that no row has yet
C18_Witness ==
    /\ Pc(1) = "append" /\ proc[1].pass = 2 /\ proc[1].clicks = 2
    /\ proc[1].href \notin HrefsOf(csv.lines)


\* ---------------------------------------------------------------- C20
\* C20: the loop of scrape_multiple_urls_streaming takes the listing URLs one
\* by one in list order and each of them once: the URL index only ever grows
\* by one, each growth up to the last URL starts a navigation with its first
\* attempt, a navigation starts in no other way, and the loop is left only
\* after the last URL - also when navigation has failed on all attempts, the
\* container wait has timed out, a click or a row write has raised.  No step
\* inside the locked region takes a line out of the CSV.  When the loop has
\* ended the file is closed, then the lock file removed, then the browser
\* closed.
C20_EveryUrlOnceInOrder ==
    [][ LET p == proc[1]
            q == proc'[1]
        IN  q.pc = "crashed" \/
            /\ q.url # p.url =>
                  /\ q.url = p.url + 1
                  /\ p.pc \in {"open", "nav", "wait_table", "rows", "append", "click"}
                  /\ q.pc = IF q.url <= p.nurls THEN "nav" ELSE "close"
                  /\ q.attempt = 1
            /\ (q.pc = "nav" /\ p.pc # "nav") => q.url = p.url + 1
            /\ (p.pc = "nav" /\ q.url = p.url) =>
                  \/ q.pc = "wait_table"
                  \/ q.pc = "nav" /\ q.attempt = p.attempt + 1 /\ q.attempt <= Attempts
            /\ (p.pc \in {"nav", "wait_table", "collect", "rows", "append", "click"}) =>
                  q.pc \in {"nav", "wait_table", "collect", "rows", "append", "click", "close"}
            /\ (q.pc = "close" /\ p.pc # "close") => q.url = p.nurls + 1
            /\ p.pc \in RegionPcs => IsPrefix(csv.lines, csv'.lines)
            /\ p.pc = "close" => q.pc = "release"
            /\ p.pc = "release" => q.pc = "quit" /\ ~lock'.exists
            /\ p.pc = "quit" => q.pc = "done" /\ ~lock'.exists
      ]_vars

\* on the first URL one row was written and the write of another one raised
\* (its row is still in the buffer); the second URL has been navigated to and
\* is in its second collection pass
C20_Witness ==
    /\ Pc(1) = "rows" /\ proc[1].url = 2 /\ proc[1].pass = 2
    /\ proc[1].fresh
    /\ proc[1].buf # <<>>
    /\ DataRows(csv.lines) # <<>>


\* ---------------------------------------------------------------- C23
\* "/Spielbericht/" in href
HasInfix(href) ==
    \E k \in 1..(Len(href) - Len(Infix) + 1) : SubSeq(href, k, k + Len(Infix) - 1) = Infix

\* C23: every href that a collection pass returns, and so every href whose
\* row the crawler writes, is not empty, has no "/Spielbericht/" in it, holds
\* "oefb.at" and does not hold "verein" in any letter case; and one
\* collection pass returns no href twice.
C23_WrittenHrefsClean ==
    LET Clean(h) == /\ h # <<>>
                    /\ ~HasInfix(h)
                    /\ Contains(h, "oefb.at")
                    /\ ~Contains(Lower(h), "verein")
    IN /\ NoRepeat(proc[1].items)
       /\ \A h \in Range(proc[1].items) : Clean(h)
       /\ Pc(1) = "append" => Clean(proc[1].href)


\* ---------------------------------------------------------------- C25
\* C25 as stated: click_more_until_stable has ended after at most max_clicks
\* passes through the body of its loop, whatever the button searches give.
C25_AtMostMaxClicksPasses == proc[1].loops <= MaxClicks

\* C25 as the code has it: the loop makes at most max_clicks clicks; a pass
\* makes one click, or ends the loop (the search timed out, or click() raised),
\* or, with a stale element, leaves the click count as it is and goes on; at
\* max_clicks clicks the loop ends.  The passes with a stale element are not
\* counted, so the number of passes is not bounded by max_clicks.
C25_AtMostMaxClicksClicks ==
    [][ LET p == proc[1]
            q == proc'[1]
        IN  (p.pc = "click" /\ q.pc # "crashed") =>
              /\ p.clicks <= MaxClicks
              /\ p.clicks = MaxClicks => q.pc = "collect"
              /\ q.pc = "click" =>
                    /\ p.clicks < MaxClicks
                    /\ q.clicks \in {p.clicks, p.clicks + 1}
                    /\ q.loops = p.loops + 1
              /\ (q.pc = "collect" /\ p.clicks < MaxClicks) =>
                    q.clicks = p.clicks /\ q.loops = p.loops + 1
      ]_vars

\* the loop has ended at max_clicks clicks after more than max_clicks passes
C25_Witness ==
    /\ Pc(1) = "collect" /\ proc[1].pass = 2
    /\ proc[1].clicks = MaxClicks
    /\ proc[1].loops > MaxClicks


\* ------------------------------------ two crawler processes (SpecLock)
\* Two processes started on the same output file with an empty URL list, so
\* that the guarded region is the opening and closing of the CSV.
LockStep(i) ==
    \/ Main(i) \/ EnsureCsv(i) \/ MakeDriver(i)
    \/ LockLoop(i) \/ LockTimeCheck(i) \/ LockStat(i) \/ LockUnlink(i)
    \/ LockSleep(i) \/ LockWrite(i)
    \/ OpenCsv(i) \/ CloseCsv(i)
    \/ LockRelease(i) \/ DriverQuit(i) \/ Crash(i)

InitLock ==
    /\ csv = NoFile
    /\ \/ lock = NoLock /\ now = 0
       \/ lock = LeftLock /\ now \in {0, StaleSecs + 1}
    /\ ticks = 0
    /\ proc = [i \in Inst |-> [Idle EXCEPT !.pc = "main"]]
    /\ ExtractorIdle
    /\ ToolsIdle

NextLock ==
    /\ (\E i \in Inst : LockStep(i)) \/ Tick
    /\ UNCHANGED <<evars, tvars>>

SpecLock == InitLock /\ [][NextLock]_vars

\* ---------------------------------------------------------------- C6
\* C6: two crawler processes on the same output CSV are never inside the
\* lock-guarded region at the same time.
C6_MutualExclusion ==
    \A i, j \in Inst : i # j => ~(InRegion(i) /\ InRegion(j))

\* ---------------------------------------------------------------- C7
\* C7 as claimed: once more than wait_secs have passed since a process began
\* to wait for the lock file, it is no longer waiting: it is never found in
\* the sleep of line 183, which follows the test "wait_secs have passed".
C7_WaitBounded ==
    \A i \in Inst : ~(Pc(i) = "lock_sleep_one" /\ TimedOut(i))

\* C7 as amended: a process leaves the wait loop only when it finds the lock
\* file absent, or when it has waited more than wait_secs and the lock file
\* it looked at was older than one hour (which it then removes); after
\* wait_secs with a younger lock it sleeps and tests again.
C7_LeavesWhenFreeOrStale ==
    [][\A i \in Inst :
         /\ (Pc(i) \in WaitPcs /\ proc'[i].pc \notin WaitPcs \cup {"crashed"})
              => \/ Pc(i) = "lock_loop" /\ ~lock.exists
                 \/ /\ Pc(i) = "lock_unlink"
                    /\ TimedOut(i)
                    /\ now - proc[i].st_mtime > StaleSecs
         /\ (Pc(i) = "lock_sleep_one" /\ proc'[i].pc # "lock_sleep_one")
              => proc'[i].pc \in {"lock_loop", "crashed"}
      ]_vars

\* a process that waited more than wait_secs removes a lock older than 1 h
C7_Witness ==
    \E i \in Inst :
        /\ Pc(i) = "lock_unlink" /\ TimedOut(i)
        /\ lock.exists /\ now - lock.mtime > StaleSecs

\* ---------------------------------------------------------------- C8
\* C8: a waiting process that finds the lock file older than one hour
\* removes it and then enters the guarded region, and a lock file that is
\* less than one hour old is never removed by a waiting process.
C8_OnlyStaleLockRemoved ==
    [][\A i \in Inst :
         /\ (Pc(i) = "lock_stat" /\ proc'[i].pc # Pc(i) /\ lock.exists
               /\ now - lock.mtime > StaleSecs)
              => proc'[i].pc \in {"lock_unlink", "crashed"}
         /\ (Pc(i) = "lock_unlink" /\ proc'[i].pc # Pc(i))
              => proc'[i].pc \in {"lock_write", "crashed"}
         /\ (Pc(i) = "lock_write" /\ proc'[i].pc # Pc(i))
              => proc'[i].pc \in {"open", "crashed"}
         /\ (Pc(i) = "lock_unlink" /\ proc'[i].pc = "lock_write" /\ lock.exists)
              => now - lock.mtime > StaleSecs
      ]_vars

\* ---------------------------------------------------------------- C26
\* C26: a process that leaves the guarded region removes no lock file but
\* one that it has written itself, and a lock file that exists was written
\* by a process that is inside the guarded region (or about to remove the
\* file on leaving, or killed) - also after a stale lock was taken over and
\* after the writing of the lock file has failed.
C26_OnlyOwnLockRemoved ==
    [][ /\ \A i \in Inst :
             (Pc(i) = "release" /\ proc'[i].pc = "quit" /\ lock.exists)
                => lock.owner = i
        /\ (lock'.exists /\ lock'.owner \in Inst) =>
              proc'[lock'.owner].pc \in RegionPcs \cup {"release", "crashed"}
      ]_vars

\* ======================================================================
\* get_coordinates on a page that loads

NextCoord ==
    /\ PageLoads \/ Poll \/ Read
    /\ UNCHANGED <<cvars, evars, avars, pvars, jvars, svars, mvars>>

\* the other programs of the repository are not running
StartCoord ==
    /\ InitCoord
    /\ CrawlerIdle
    /\ ExtractorIdle
    /\ AddrIdle
    /\ PostIdle
    /\ JsonIdle
    /\ GetIdle
    /\ MineIdle

SpecCoord == StartCoord /\ [][NextCoord]_vars

\* C11: get_coordinates never returns (0,0); what it returns is (None, None)
\* or the pair of the first entry of the preload structure, as it is when
\* the pair is read, whose two values are numbers and not both zero; and
\* when the wait ends by timeout it returns (None, None).
C11_NeverZeroZero ==
    [][ gpc' = "returned" =>
          /\ coords' # <<"0", "0">>
          /\ \/ coords' = NoPair
             \/ /\ gpc = "read" /\ appPreloads.present
                /\ \E k \in 1..Len(appPreloads.entries) :
                      LET e == appPreloads.entries[k]
                      IN /\ ~(e.latitude = "0" /\ e.longitude = "0")
                         /\ coords' = <<FromJs(e.latitude), FromJs(e.longitude)>>
          /\ gpc = "wait" => coords' = NoPair
      ]_vars

\* a page that first shows (0,0) and then the location
C11_Witness ==
    /\ gpc = "returned" /\ coords = <<"48", "16">>
    /\ appPreloads.present /\ Len(appPreloads.entries) = 2
    /\ appPreloads.entries[1] = [latitude |-> "0", longitude |-> "0"]
    /\ polls > 0

\* ======================================================================
\* extract_address_parts on one address

NextAddr ==
    /\ Extract
    /\ UNCHANGED <<cvars, evars, gvars, pvars, jvars, svars, mvars>>

\* the other programs of the repository are not running
StartAddr ==
    /\ InitAddr
    /\ CrawlerIdle
    /\ ExtractorIdle
    /\ CoordIdle
    /\ PostIdle
    /\ JsonIdle
    /\ GetIdle
    /\ MineIdle

SpecAddr == StartAddr /\ [][NextAddr]_vars

\* C17: the street is the first comma segment that is not blank, stripped.
\* PLZ and Ort are the first match of the pattern in the second such
\* segment when there is one and it has a match; otherwise they are the
\* first match in the whole address (the address without its street, which
\* is searched first when there is one segment only, holds no match that the
\* whole address does not start with); they are None exactly when the whole
\* address has no match.  "Hauptstr 1, 1010 Wien" gives "Hauptstr 1",
\* "1010", "Wien".
C17_AddressParts ==
    (address_parts # NoParts /\ addr # NaNText) =>
        LET segs == Split(addr)
            full == {k \in 1..Len(segs) : \E j \in 1..Len(segs[k]) : segs[k][j] # " "}
            first == CHOOSE k \in full : \A j \in full : k <= j
            rest == full \ {first}
            second == CHOOSE k \in rest : \A j \in rest : k <= j
            inSecond == IF full # {} /\ rest # {} THEN Search(Strip(segs[second])) ELSE NoMatch
            inAll == Search(addr)
        IN /\ address_parts.Strasse = IF full = {} THEN NoneText ELSE Strip(segs[first])
           /\ inSecond.found =>
                 address_parts.PLZ = inSecond.plz /\ address_parts.Ort = inSecond.ort
           /\ (~inSecond.found /\ inAll.found) =>
                 address_parts.PLZ = inAll.plz /\ address_parts.Ort = inAll.ort
           /\ (address_parts.PLZ = NoneText) = ~inAll.found
           /\ (address_parts.Ort = NoneText) = ~inAll.found
           /\ addr = ExampleAddr =>
                 address_parts = [Strasse |-> <<"Hauptstr", " ", "1">>,
                                  PLZ |-> <<"1010">>, Ort |-> <<"Wien">>]

\* an address whose second segment has no match and whose first has one
C17_Witness ==
    /\ addr = <<"1010", " ", "WIEN", " ", ",", "Wien">>
    /\ address_parts = [Strasse |-> <<"1010", " ", "WIEN">>,
                        PLZ |-> <<"1010">>, Ort |-> <<"WIEN">>]

\* ======================================================================
\* post_processing.py on one input CSV

NextPost ==
    /\ PostMain
    /\ UNCHANGED <<cvars, evars, gvars, avars, jvars, svars, mvars>>

\* the other programs of the repository are not running
StartPost ==
    /\ InitPost
    /\ CrawlerIdle
    /\ ExtractorIdle
    /\ CoordIdle
    /\ AddrIdle
    /\ JsonIdle
    /\ GetIdle
    /\ MineIdle

SpecPost == StartPost /\ [][NextPost]_vars

\* the input rows whose parsed Ort holds "wien" in some letter case
WienRows == {k \in 1..Len(in_csv) : InWien(extract_address_parts(in_csv[k].Adresse).Ort)}
QuellenOf(file) == {file.rows[k].Quelle : k \in 1..Len(file.rows)}

\* C12: every row of the clean output has an Ort cell that is not empty and
\* holds "wien" in some letter case, and an input row whose parsed Ort is
\* null or does not hold it is in neither output.
C12_OnlyWien ==
    ppc = "done" =>
        /\ \A k \in 1..Len(output_csv.rows) :
              LET ort == output_csv.rows[k].Ort
              IN ort # <<>> /\ \E j \in 1..Len(ort) : ort[j] \in {"Wien", "WIEN", "wien"}
        /\ \A k \in 1..Len(in_csv) :
              k \notin WienRows =>
                  in_csv[k].Quelle \notin QuellenOf(output_csv) \cup QuellenOf(fails_csv)

\* a Vienna row in upper case is kept, a row without Ort and a Linz row go
C12_Witness ==
    /\ ppc = "done" /\ Len(in_csv) = 2
    /\ in_csv[1].Adresse = <<"1010", " ", "WIEN", " ">>
    /\ in_csv[2].Adresse \in {NaNText, <<" ", "1010", " ", "Linz">>, <<"Wien">>}
    /\ QuellenOf(output_csv) = {1}

\* C13: the fails output is, in the same order, the rows of the clean
\* output whose Latitude and Longitude cells are both empty; a row with one
\* of the two is not in it; every Vienna row of the input is in the clean
\* output, whether it is in fails or not.
C13_FailsAreBothNull ==
    ppc = "done" =>
        /\ fails_csv.exists /\ output_csv.exists
        /\ fails_csv.rows =
              SelectSeq(output_csv.rows, LAMBDA r : r.Latitude = "" /\ r.Longitude = "")
        /\ \A k \in 1..Len(output_csv.rows) :
              LET r == output_csv.rows[k]
              IN (r.Latitude = "") # (r.Longitude = "") => r.Quelle \notin QuellenOf(fails_csv)
        /\ QuellenOf(fails_csv) \subseteq QuellenOf(output_csv)
        /\ QuellenOf(output_csv) = {in_csv[k].Quelle : k \in WienRows}
        /\ Len(output_csv.rows) = Cardinality(WienRows)

\* one row without coordinates and one with a longitude only
C13_Witness ==
    /\ ppc = "done" /\ Len(output_csv.rows) = 2 /\ Len(fails_csv.rows) = 1
    /\ \E k \in 1..2 :
          /\ output_csv.rows[k].Latitude = "" /\ output_csv.rows[k].Longitude = "16.3"
          /\ output_csv.rows[k].Quelle \notin QuellenOf(fails_csv)

\* C14: every row of the clean output whose Heim is "Gersthofer SV" has the
\* coordinates of the correction table and is not in the fails output,
\* whatever was scraped for it; every Vienna row of the input with that Heim
\* is such a row.
C14_GersthofCorrected ==
    ppc = "done" =>
        /\ \A k \in 1..Len(output_csv.rows) :
              LET r == output_csv.rows[k]
              IN r.Heim = "Gersthofer SV" =>
                    /\ r.Latitude = GersthofLat /\ r.Longitude = GersthofLon
                    /\ r.Quelle \notin QuellenOf(fails_csv)
        /\ \A k \in WienRows :
              in_csv[k].Heim = "Gersthofer SV" =>
                  \E j \in 1..Len(output_csv.rows) :
                      /\ output_csv.rows[j].Quelle = in_csv[k].Quelle
                      /\ output_csv.rows[j].Heim = "Gersthofer SV"

\* one such row scraped without coordinates, one with coordinates
C14_Witness ==
    /\ ppc = "done" /\ Len(in_csv) = 2 /\ Len(output_csv.rows) = 2
    /\ \A k \in 1..2 : in_csv[k].Heim = "Gersthofer SV"
    /\ in_csv[1].Latitude = "NaN" /\ in_csv[1].Longitude = "NaN"
    /\ in_csv[2].Latitude = "48.2" /\ in_csv[2].Longitude = "16.3"
    /\ fails_csv.rows = <<>>

\* ======================================================================
\* create_martiball_json.py on one clean CSV

NextJson ==
    /\ JsonMain
    /\ UNCHANGED <<cvars, evars, gvars, avars, pvars, svars, mvars>>

\* the other programs of the repository are not running
StartJson ==
    /\ InitJson
    /\ CrawlerIdle
    /\ ExtractorIdle
    /\ CoordIdle
    /\ AddrIdle
    /\ PostIdle
    /\ GetIdle
    /\ MineIdle

SpecJson == StartJson /\ [][NextJson]_vars

\* the text fields of a record and the columns they are made from
TextFields ==
    { <<"Heimmannschaft", "Heim">>, <<"Gastmannschaft", "Gast">>, <<"Typ", "Typ">>,
      <<"Liga", "Liga">>, <<"Spielort", "Spielort_Name">>,
      <<"SpielortStrasse", "Strasse">>, <<"SpielortOrt", "Ort">> }

\* C15: in every record, a text field whose cell is missing in the CSV row
\* is the empty string, and no text field is None or the rendering of a
\* missing value.
C15_MissingIsEmptyString ==
    jpc = "done" =>
        \A k \in 1..Len(records) : \A f \in TextFields :
            /\ json_df[k][f[2]] = "NaN" => records[k][f[1]] = ""
            /\ records[k][f[1]] \notin {"None", "NaN", "nan", "null"}

\* ======================================================================
\* safe_get on one URL

NextGet ==
    /\ GetTry \/ GetExcept \/ GetSleep
    /\ UNCHANGED <<cvars, evars, gvars, avars, pvars, jvars, mvars>>

\* the other programs of the repository are not running
StartGet ==
    /\ InitGet
    /\ CrawlerIdle
    /\ ExtractorIdle
    /\ CoordIdle
    /\ AddrIdle
    /\ PostIdle
    /\ JsonIdle
    /\ MineIdle

SpecGet == StartGet /\ [][NextGet]_vars

\* C21: safe_get calls driver.get at most three times and never again after
\* a call that succeeded; after the failed call i (TimeoutException or
\* WebDriverException), i < 3, it sleeps 1.5 * i seconds; after the third
\* failed call it raises the error of that call and has slept twice only.
C21_SafeGetRetries ==
    /\ get_calls <= Attempts
    /\ \A k \in 1..(get_calls - 1) : get_outcomes[k] \in Caught
    /\ Len(get_slept) <= Attempts - 1
    /\ \A k \in 1..Len(get_slept) : get_slept[k] = backoff10 * k
    /\ get_pc = "try" => Len(get_slept) = get_calls
    /\ get_pc \in {"except", "sleep", "returned", "raised"} => Len(get_slept) = get_calls - 1
    /\ get_pc = "returned" => get_outcomes[get_calls] = "ok"
    /\ get_pc = "raised" =>
          /\ get_err = get_outcomes[get_calls]
          /\ get_err \in Caught => get_calls = Attempts

\* the third call has failed after two sleeps, and its error is raised
C21_Witness ==
    /\ get_pc = "raised" /\ get_calls = Attempts
    /\ get_err = "TimeoutException"
    /\ get_slept = <<backoff10, backoff10 * 2>>

\* ======================================================================
\* two crawler processes that stream one listing URL each into the same CSV

\* __main__ started twice with the same output path and one URL
InitTwo ==
    /\ csv \in {NoFile} \cup PriorFiles
    /\ lock = NoLock /\ now = 0 /\ ticks = 0
    /\ proc = [i \in Inst |-> [Idle EXCEPT !.pc = "main", !.nurls = 1]]
    /\ ExtractorIdle
    /\ ToolsIdle

\* the runs in which the lock file does serialize the two processes: they
\* are not inside the guarded region together
Serialized == ~(InRegion(1) /\ InRegion(2))

\* the steps of a process that is not killed and that does not wait for the
\* lock longer than wait_secs (the clock does not advance)
StepTwo(i) ==
    \/ Main(i) \/ EnsureCsv(i) \/ MakeDriver(i)
    \/ LockLoop(i) \/ LockTimeCheck(i) \/ LockSleep(i) \/ LockWrite(i)
    \/ OpenCsv(i) \/ SafeGet(i) \/ WaitTable(i) \/ Collect(i) \/ StreamItem(i)
    \/ AppendRow(i) \/ ClickMore(i) \/ CloseCsv(i)
    \/ LockRelease(i) \/ DriverQuit(i)

NextTwo ==
    /\ \E i \in Inst : StepTwo(i)
    /\ Serialized'
    /\ UNCHANGED <<evars, tvars>>

SpecTwo == InitTwo /\ [][NextTwo]_vars

\* the hrefs of the rows that a step has added to the file
Added(old, new) == {new[k].href : k \in (Len(old) + 1)..Len(new)}

\* C24: of two crawler processes started with resume on the same CSV, the
\* one that takes the lock after the other one has left the guarded region
\* and ended (the lock file is its own, the other process is done) appends
\* no row for an href that the file already has.
C24_NoRepeatAcrossInstances ==
    [][ \A i, j \in Inst :
          ( /\ i # j
            /\ ~proc[i].fresh /\ ~proc[j].fresh
            /\ Pc(j) = "done"
            /\ InRegion(i) /\ lock.exists /\ lock.owner = i )
          => Added(csv.lines, csv'.lines) \cap HrefsOf(csv.lines) = {}
      ]_vars

\* ======================================================================
\* mine_game on one link

NextMine ==
    /\ MineGet \/ MineContainer \/ MineBewerb \/ MineCoordinates \/ MineReturn
    /\ UNCHANGED <<cvars, evars, gvars, avars, pvars, jvars, svars>>

\* the other programs of the repository are not running
StartMine ==
    /\ InitMine
    /\ CrawlerIdle
    /\ ExtractorIdle
    /\ CoordIdle
    /\ AddrIdle
    /\ PostIdle
    /\ JsonIdle
    /\ GetIdle

SpecMine == StartMine /\ [][NextMine]_vars

\* C27: when the wait for the coordinates has timed out (no entry of the
\* preload structure has a pair of numbers that is not (0,0)), mine_game
\* returns a row without an error that has the fields read before and null
\* for Latitude and Longitude; when the wait for the preload structure in
\* get_bewerb has timed out, it returns the error row: every data field
\* null, the link and its source kept, and the error set.
C27_TimeoutOfCoordinatesIsNoError ==
    game.pc = "returned" =>
      /\ (game.raised = "none" /\ ~HasResolved(page.ap)) =>
            /\ game.row.error = "NaN"
            /\ game.row.Latitude = "None" /\ game.row.Longitude = "None"
            /\ game.row.Runde = page.runde
            /\ game.row.Liga = (IF page.bewerb = "null" THEN "" ELSE page.bewerb)
            /\ game.row.Typ \in {"Frau", "Mann"}
            /\ game.row.Quelle = game_weblink
      /\ (~HasResolved(page.ap) /\ page.ap.present) => game.raised # "get_coordinates"
      /\ (~page.ap.present /\ game.raised \notin {"safe_get", "container"}) =>
            /\ game.raised = "get_bewerb"
            /\ game.row.error = "get_bewerb"
            /\ \A f \in {"Liga", "Typ", "Runde", "Latitude", "Longitude"} :
                  game.row[f] = "None"
            /\ game.row.Quelle = game_weblink
            /\ game.row.link = ReplaceInfix(game_weblink)

\* the preload structure is there with a label and without usable
\* coordinates: the row has the label and no coordinates
C27_Witness ==
    /\ game.pc = "returned" /\ game.raised = "none"
    /\ page.ap.present /\ ~HasResolved(page.ap)
    /\ game.row.Liga = "Frauen-Liga" /\ game.row.Latitude = "None"

\* the preload structure never appears: the error row
C27_WitnessBewerb ==
    /\ game.pc = "returned" /\ game.raised = "get_bewerb" /\ game.row.Liga = "None"

====
